---- MODULE Spec2Model ----
(***************************************************************************)
(* Model of tools/additionals.py (IQR outlier detection) and               *)
(* tools/visualisation.py (validation, render dispatch, RenderConfig       *)
(* setters).                                                               *)
(*                                                                         *)
(* Numbers: the outlier detector is modelled over integers.  Percentiles   *)
(* at 25 and 75 have interpolation weights that are multiples of 1/4 and   *)
(* the fence adds a factor 3/2, so every quantity is held multiplied by 8  *)
(* (an exact integer); comparisons are made between the scaled numbers.    *)
(* Python indices are 0-based: element i of a TLA+ sequence is Python      *)
(* element i-1.                                                            *)
(***************************************************************************)
EXTENDS Integers, Sequences, FiniteSets, TLC

VARIABLES
    data, key, outliers, pcO,
    block_height, block_width, plot_color, darker_color, hist_bins, hist_range,
    call, outcome, trace, subplots, figsize, saved

outlierVars == <<data, key, outliers, pcO>>
configVars == <<block_height, block_width, plot_color, darker_color, hist_bins, hist_range>>
renderVars == <<call, outcome, trace, subplots, figsize, saved>>
vars == <<data, key, outliers, pcO,
          block_height, block_width, plot_color, darker_color, hist_bins, hist_range,
          call, outcome, trace, subplots, figsize, saved>>

(***************************************************************************)
(* Bounds of the explored inputs.                                          *)
(***************************************************************************)
MaxLen == 5
MaxVal == 3
MaxList == 2
MaxNdim == 3

RECURSIVE SeqsOfLen(_, _)
SeqsOfLen(S, n) ==
    IF n = 0 THEN {<<>>}
    ELSE {Append(s, x) : s \in SeqsOfLen(S, n - 1), x \in S}

SeqsUpTo(S, n) == UNION {SeqsOfLen(S, k) : k \in 0..n}

RECURSIVE Reverse(_)
Reverse(s) == IF s = <<>> THEN <<>> ELSE Append(Reverse(Tail(s)), Head(s))

ExampleData == <<1, 2, 3, 4, 5, 100>>
DataInputs == SeqsUpTo(0..MaxVal, MaxLen) \cup {ExampleData}
Keys == {"identity", "negate", "constant"}

(***************************************************************************)
(* tools/additionals.py                                                    *)
(***************************************************************************)
\* key(x) for the key functions explored
ApplyKey(k, x) ==
    CASE k = "identity" -> x
      [] k = "negate" -> 0 - x
      [] OTHER -> 7

\* values = np.array([key(x) for x in data])
KeyedValues(d, k) == [i \in 1..Len(d) |-> ApplyKey(k, d[i])]

\* insertion of one element into an ascending sequence
RECURSIVE InsertSorted(_, _)
InsertSorted(s, x) ==
    IF s = <<>> THEN <<x>>
    ELSE IF x <= Head(s) THEN <<x>> \o s
    ELSE <<Head(s)>> \o InsertSorted(Tail(s), x)

\* the ascending arrangement np.percentile takes its ranks from
RECURSIVE SortAsc(_)
SortAsc(s) ==
    IF s = <<>> THEN <<>> ELSE InsertSorted(SortAsc(Tail(s)), Head(s))

\* variant: the lower closest rank is taken without interpolation
Percentile4Lower(values, k) ==
    LET n == Len(values)
        s == SortAsc(values)
        prev == ((n - 1) * k) \div 4
    IN  4 * s[prev + 1]

\* 4 * np.percentile(values, 25 * k), k \in {1, 3}, default method "linear":
\* virtual index (n-1)*k/4, previous = floor, next = previous + 1 clipped to
\* n-1, gamma = (virtual index - previous), result = a + (b - a) * gamma.
Percentile4(values, k) ==
    LET n == Len(values)
        s == SortAsc(values)
        prev == ((n - 1) * k) \div 4
        gamma4 == ((n - 1) * k) % 4
        next == IF prev + 1 > n - 1 THEN n - 1 ELSE prev + 1
        a == s[prev + 1]
        b == s[next + 1]
    IN  4 * a + (b - a) * gamma4

\* 8 * lower and 8 * upper:  eps = (q3 - q1) * 1.5
Lower8(values) ==
    LET q1 == Percentile4(values, 1)
        q3 == Percentile4(values, 3)
        eps8 == (q3 - q1) * 3
    IN  2 * q1 - eps8

Upper8(values) ==
    LET q1 == Percentile4(values, 1)
        q3 == Percentile4(values, 3)
        eps8 == (q3 - q1) * 3
    IN  2 * q3 + eps8

\* variant: values on a fence are flagged too
MaskOutliersInclusive(values) ==
    LET lo == Lower8(values)
        up == Upper8(values)
    IN  [i \in 1..Len(values) |-> (8 * values[i] <= lo) \/ (8 * values[i] >= up)]

\* mask_outliers = (values < lower) | (values > upper)
MaskOutliers(values) ==
    LET lo == Lower8(values)
        up == Upper8(values)
    IN  [i \in 1..Len(values) |-> (8 * values[i] < lo) \/ (8 * values[i] > up)]

\* np.nonzero(mask)[0]: the 0-based positions of the true entries, scanned
\* from the first to the last
RECURSIVE NonZeroFrom(_, _)
NonZeroFrom(mask, i) ==
    IF i > Len(mask) THEN <<>>
    ELSE IF mask[i] THEN <<i - 1>> \o NonZeroFrom(mask, i + 1)
    ELSE NonZeroFrom(mask, i + 1)

\* variant: the positions are listed from the last to the first
NonZeroDescending(mask) == Reverse(NonZeroFrom(mask, 1))

NonZero(mask) == NonZeroFrom(mask, 1)

get_boxplot_outliers ==
    /\ pcO = "ready"
    /\ IF Len(data) = 0
       THEN /\ pcO' = "raised"
            /\ outliers' = <<>>
       ELSE /\ pcO' = "returned"
            /\ outliers' = NonZero(MaskOutliers(KeyedValues(data, key)))
    /\ UNCHANGED <<data, key>>
    /\ UNCHANGED configVars
    /\ UNCHANGED renderVars

(***************************************************************************)
(* tools/visualisation.py: values handed to the functions                  *)
(***************************************************************************)
\* class DiagramTypes(StrEnum) / class AxisNames(StrEnum): the member values
DiagramTypes == {"v", "h", "b"}
AxisNames == {"X", "Y"}

\* one Python object that is an enum member or a plain str: its class and
\* its string value (a StrEnum member compares equal to its value)
Member(c, v) == [cls |-> c, val |-> v]
\* an argument that is a single object (list = FALSE, items has the one
\* object) or a Python list of objects
Single(e) == [list |-> FALSE, items |-> <<e>>]
ListOf(es) == [list |-> TRUE, items |-> es]

DiagramMembers == {Member("DiagramTypes", v) : v \in DiagramTypes}
AxisMembers == {Member("AxisNames", v) : v \in AxisNames}

DiagramInputs ==
    {Single(e) : e \in DiagramMembers}
    \cup {ListOf(es) : es \in SeqsUpTo(DiagramMembers, MaxList)}
    \cup {Single(Member("str", "v")), Single(Member("str", "x")),
          ListOf(<<Member("DiagramTypes", "b"), Member("str", "x")>>),
          ListOf(<<Member("str", "v")>>)}

AxisInputs ==
    {Single(e) : e \in AxisMembers}
    \cup {ListOf(es) : es \in SeqsUpTo(AxisMembers, MaxList)}
    \cup {Single(Member("str", "X")), ListOf(<<Member("DiagramTypes", "v")>>)}

\* points: something that is not an ndarray, a numeric ndarray of a given
\* shape, or a 1-D ndarray of dtype object whose elements are ndarrays of
\* the given shapes
NotArray == [ndarray |-> FALSE, object |-> FALSE, shape |-> <<>>, elems |-> <<>>]
NumArray(sh) == [ndarray |-> TRUE, object |-> FALSE, shape |-> sh, elems |-> <<>>]
ObjArray(es) == [ndarray |-> TRUE, object |-> TRUE, shape |-> <<Len(es)>>, elems |-> es]

Dims == {2, 3}
NumShapes == SeqsUpTo(Dims, MaxNdim) \ {<<>>}
ElemShapes == {<<3>>, <<4>>, <<2, 2>>}
PointsInputs ==
    {NotArray}
    \cup {NumArray(sh) : sh \in NumShapes}
    \cup {ObjArray(<<a, b>>) : a \in ElemShapes, b \in ElemShapes}

PathInputs == {"", "out.png"}

\* arguments of the setters
PyInt(n) == [type |-> "int", int |-> n, str |-> "", tup |-> <<>>]
PyFloat(tenths) == [type |-> "float", int |-> tenths, str |-> "", tup |-> <<>>]
PyStr(s) == [type |-> "str", int |-> 0, str |-> s, tup |-> <<>>]
PyTuple(t) == [type |-> "tuple", int |-> 0, str |-> "", tup |-> t]
PyNone == [type |-> "NoneType", int |-> 0, str |-> "", tup |-> <<>>]
SetterArgs == {PyInt(2), PyFloat(105), PyStr("red"), PyTuple(<<>>), PyNone}

isinstance(x, t) == x.type = t

(***************************************************************************)
(* ndarray attributes                                                      *)
(***************************************************************************)
RECURSIVE Product(_)
Product(s) == IF s = <<>> THEN 1 ELSE Head(s) * Product(Tail(s))

ndim(sh) == Len(sh)
size(sh) == Product(sh)

\* abscissa, ordinates = points.T : the transpose reverses the shape, the
\* unpacking iterates the first axis and needs exactly two entries
Unpack(points) ==
    IF points.object
    THEN [ok |-> Len(points.elems) = 2,
          abscissa |-> IF Len(points.elems) = 2 THEN points.elems[1] ELSE <<>>,
          ordinates |-> IF Len(points.elems) = 2 THEN points.elems[2] ELSE <<>>]
    ELSE LET t == Reverse(points.shape)
         IN  [ok |-> Head(t) = 2, abscissa |-> Tail(t), ordinates |-> Tail(t)]

(***************************************************************************)
(* validate_distribution                                                   *)
(***************************************************************************)
\* isinstance(x, C) or (isinstance(x, list) and all(isinstance(e, C) for e in x))
ValidateMembers(x, c) ==
    \/ (~x.list /\ x.items[1].cls = c)
    \/ (x.list /\ \A k \in 1..Len(x.items) : x.items[k].cls = c)

\* the raised error, or "ok"
ValidateDistribution(points, diagram_type, diagram_axis) ==
    LET validate_types == ValidateMembers(diagram_type, "DiagramTypes")
        validate_axes == ValidateMembers(diagram_axis, "AxisNames")
    IN  IF ~validate_types THEN "TypeError: diagram type"
        ELSE IF ~validate_axes THEN "TypeError: diagram axis"
        ELSE IF ~points.ndarray THEN "TypeError: points"
        ELSE LET u == Unpack(points)
             IN  IF ~u.ok THEN "ValueError: unpack"
                 ELSE IF size(u.abscissa) # size(u.ordinates)
                      THEN "ShapeMismatchError"
                 ELSE IF (ndim(u.abscissa) # 1)
                         /\ (ndim(u.abscissa) # ndim(u.ordinates))
                      THEN "ValueError: one-dimensional"
                 ELSE "ok"

NoCall == [op |-> "none", points |-> NotArray, diagram_type |-> ListOf(<<>>),
           diagram_axis |-> ListOf(<<>>), path_to_save |-> "", arg |-> PyNone]

validate_distribution(points, diagram_type, diagram_axis) ==
    /\ call' = [NoCall EXCEPT !.op = "validate_distribution", !.points = points,
                              !.diagram_type = diagram_type,
                              !.diagram_axis = diagram_axis]
    /\ outcome' = ValidateDistribution(points, diagram_type, diagram_axis)
    /\ trace' = <<"validate">>
    /\ subplots' = <<>>
    /\ figsize' = <<>>
    /\ saved' = ""
    /\ UNCHANGED configVars
    /\ UNCHANGED outlierVars

(***************************************************************************)
(* visualize_distribution                                                  *)
(***************************************************************************)
\* diagrams = diagram_type if isinstance(diagram_type, list) else [diagram_type]
AsList(x) == IF x.list THEN x.items ELSE <<x.items[1]>>

\* the match statement: value patterns compare by ==
KnownDiagram(diagram) == diagram.val \in DiagramTypes

\* variant: the abscissa and the ordinates are exchanged
DrawCellSwapped(i, j, diagram, axisName) ==
    LET src == IF axisName.val = "X" THEN "ordinates" ELSE "abscissa"
        title == IF i = 0 THEN axisName.val ELSE ""
        k == CASE diagram.val = "v" -> "violin" [] diagram.val = "h" -> "hist"
               [] diagram.val = "b" -> "boxplot" [] OTHER -> "none"
    IN  [row |-> i, col |-> j, kind |-> k, data |-> src,
         face |-> plot_color, line |-> darker_color,
         bins |-> 0, range |-> <<>>, title |-> title]

\* the subplot of grid cell (i, j) after the loop body ran for it
DrawCell(i, j, diagram, axisName) ==
    LET src == IF axisName.val = "X" THEN "abscissa" ELSE "ordinates"
        title == IF i = 0 THEN axisName.val ELSE ""
    IN  CASE diagram.val = "v" ->
               [row |-> i, col |-> j, kind |-> "violin", data |-> src,
                face |-> plot_color, line |-> darker_color,
                bins |-> 0, range |-> <<>>, title |-> title]
          [] diagram.val = "h" ->
               [row |-> i, col |-> j, kind |-> "hist", data |-> src,
                face |-> plot_color, line |-> "",
                bins |-> hist_bins,
                range |-> IF hist_range = <<>> THEN <<>> ELSE hist_range,
                title |-> title]
          [] diagram.val = "b" ->
               [row |-> i, col |-> j, kind |-> "boxplot", data |-> src,
                face |-> "#83B783", line |-> "forestgreen",
                bins |-> 0, range |-> <<>>, title |-> title]
          [] OTHER ->
               [row |-> i, col |-> j, kind |-> "none", data |-> src,
                face |-> "", line |-> "", bins |-> 0, range |-> <<>>,
                title |-> ""]

\* the renderer calls the loop body makes for cell (i, j)
CellTrace(i, diagram) ==
    IF ~KnownDiagram(diagram) THEN <<"add_subplot">>
    ELSE IF i = 0 THEN <<"add_subplot", "draw", "set_title">>
    ELSE <<"add_subplot", "draw">>

\* the nested loops from cell number k (row-major) on; the loop ends at the
\* first cell whose diagram matches no case
RECURSIVE RenderFrom(_, _, _)
RenderFrom(k, diagrams, axes) ==
    LET ncols == Len(axes)
        nrows == Len(diagrams)
        i == k \div ncols
        j == k % ncols
    IN  IF k >= nrows * ncols THEN [cells |-> <<>>, calls |-> <<>>, raised |-> FALSE]
        ELSE IF ~KnownDiagram(diagrams[i + 1])
        THEN [cells |-> <<DrawCell(i, j, diagrams[i + 1], axes[j + 1])>>,
              calls |-> CellTrace(i, diagrams[i + 1]),
              raised |-> TRUE]
        ELSE LET rest == RenderFrom(k + 1, diagrams, axes)
             IN  [cells |-> <<DrawCell(i, j, diagrams[i + 1], axes[j + 1])>> \o rest.cells,
                  calls |-> CellTrace(i, diagrams[i + 1]) \o rest.calls,
                  raised |-> rest.raised]

\* variant: the figure is created before the arguments are validated
RaisedAfterFigure(v) ==
    [outcome |-> v, trace |-> <<"figure", "validate">>, subplots |-> <<>>,
     figsize |-> <<block_width, block_height>>, saved |-> ""]

\* validate_distribution raised v: it is the first statement of the call, so
\* the error leaves the call before any renderer call
RaisedByValidator(v) ==
    [outcome |-> v, trace |-> <<"validate">>, subplots |-> <<>>,
     figsize |-> <<>>, saved |-> ""]

\* the whole call: error raised (or "ok"), renderer calls in order, subplots
\* created, figure size, path written
VisualizeDistribution(points, diagram_type, diagram_axis, path_to_save) ==
    LET v == ValidateDistribution(points, diagram_type, diagram_axis)
        diagrams == AsList(diagram_type)
        axes == AsList(diagram_axis)
        ncols == Len(axes)
        nrows == Len(diagrams)
        size2 == <<ncols * block_width, nrows * block_height>>
        r == RenderFrom(0, diagrams, axes)
    IN  IF v # "ok"
        THEN RaisedByValidator(v)
        ELSE IF nrows = 0 \/ ncols = 0
        THEN \* plt.GridSpec needs a positive number of rows and of columns
             [outcome |-> "ValueError: gridspec",
              trace |-> <<"validate", "figure", "gridspec">>,
              subplots |-> <<>>, figsize |-> size2, saved |-> ""]
        ELSE IF r.raised
        THEN [outcome |-> "ValueError: Invalid diagram type",
              trace |-> <<"validate", "figure", "gridspec">> \o r.calls,
              subplots |-> r.cells, figsize |-> size2, saved |-> ""]
        ELSE [outcome |-> "ok",
              trace |-> <<"validate", "figure", "gridspec">> \o r.calls
                        \o <<"tight_layout">>
                        \o (IF path_to_save # "" THEN <<"savefig">> ELSE <<>>)
                        \o <<"show">>,
              subplots |-> r.cells, figsize |-> size2,
              saved |-> path_to_save]

visualize_distribution(points, diagram_type, diagram_axis, path_to_save) ==
    LET res == VisualizeDistribution(points, diagram_type, diagram_axis, path_to_save)
    IN  /\ call' = [NoCall EXCEPT !.op = "visualize_distribution",
                                  !.points = points,
                                  !.diagram_type = diagram_type,
                                  !.diagram_axis = diagram_axis,
                                  !.path_to_save = path_to_save]
        /\ outcome' = res.outcome
        /\ trace' = res.trace
        /\ subplots' = res.subplots
        /\ figsize' = res.figsize
        /\ saved' = res.saved
        /\ UNCHANGED configVars
        /\ UNCHANGED outlierVars

(***************************************************************************)
(* Setters for parameters                                                  *)
(***************************************************************************)
\* what a setter call leaves in the call record; it renders nothing
SetterCall(name, x, ok) ==
    /\ call' = [NoCall EXCEPT !.op = name, !.arg = x]
    /\ outcome' = IF ok THEN "ok" ELSE "ValueError: setter"
    /\ trace' = <<>>
    /\ subplots' = <<>>
    /\ figsize' = <<>>
    /\ saved' = ""
    /\ UNCHANGED outlierVars

set_blockheight(height) ==
    /\ IF isinstance(height, "int")
       THEN block_height' = height.int
       ELSE UNCHANGED block_height
    /\ UNCHANGED <<block_width, plot_color, darker_color, hist_bins, hist_range>>
    /\ SetterCall("set_blockheight", height, isinstance(height, "int"))

set_blockwidth(width) ==
    /\ IF isinstance(width, "int")
       THEN block_width' = width.int
       ELSE UNCHANGED block_width
    /\ UNCHANGED <<block_height, plot_color, darker_color, hist_bins, hist_range>>
    /\ SetterCall("set_blockwidth", width, isinstance(width, "int"))

set_plotcolor(color) ==
    /\ IF isinstance(color, "str")
       THEN plot_color' = color.str
       ELSE UNCHANGED plot_color
    /\ UNCHANGED <<block_height, block_width, darker_color, hist_bins, hist_range>>
    /\ SetterCall("set_plotcolor", color, isinstance(color, "str"))

\* variant: the value is stored before its type is checked
set_histbins_unchecked(bins) ==
    /\ hist_bins' = bins.int
    /\ UNCHANGED <<block_height, block_width, plot_color, darker_color, hist_range>>
    /\ SetterCall("set_histbins", bins, isinstance(bins, "int"))

set_histbins(bins) ==
    /\ IF isinstance(bins, "int")
       THEN hist_bins' = bins.int
       ELSE UNCHANGED hist_bins
    /\ UNCHANGED <<block_height, block_width, plot_color, darker_color, hist_range>>
    /\ SetterCall("set_histbins", bins, isinstance(bins, "int"))

set_range(range) ==
    /\ IF isinstance(range, "tuple")
       THEN hist_range' = range.tup
       ELSE UNCHANGED hist_range
    /\ UNCHANGED <<block_height, block_width, plot_color, darker_color, hist_bins>>
    /\ SetterCall("set_range", range, isinstance(range, "tuple"))

(***************************************************************************)
(* Initial states and specifications                                       *)
(***************************************************************************)
\* module-level defaults of tools/visualisation.py; nothing called yet
InitConfig ==
    /\ block_height = 4
    /\ block_width = 6
    /\ plot_color = "forestgreen"
    /\ darker_color = "green"
    /\ hist_bins = 30
    /\ hist_range = <<0, 5>>

InitRender ==
    /\ call = NoCall
    /\ outcome = "ok"
    /\ trace = <<>>
    /\ subplots = <<>>
    /\ figsize = <<>>
    /\ saved = ""

Init ==
    /\ data = <<>>
    /\ key = "identity"
    /\ outliers = <<>>
    /\ pcO = "idle"
    /\ InitConfig
    /\ InitRender

\* arguments of the visualize_distribution calls interleaved with the setters
CallPoints == {NotArray, NumArray(<<3, 2>>)}
CallDiagrams ==
    {Single(Member("DiagramTypes", "b")),
     ListOf(<<Member("DiagramTypes", "h"), Member("DiagramTypes", "v")>>),
     Single(Member("str", "v"))}
CallAxes ==
    {Single(Member("AxisNames", "X")),
     ListOf(<<Member("AxisNames", "Y"), Member("AxisNames", "X")>>)}

Next ==
    \/ \E p \in CallPoints, dt \in CallDiagrams, da \in CallAxes, path \in PathInputs :
          visualize_distribution(p, dt, da, path)
    \/ \E x \in SetterArgs : set_blockheight(x)
    \/ \E x \in SetterArgs : set_blockwidth(x)
    \/ \E x \in SetterArgs : set_plotcolor(x)
    \/ \E x \in SetterArgs : set_histbins(x)
    \/ \E x \in SetterArgs : set_range(x)

Spec == Init /\ [][Next]_vars

\* one call whose arguments range over all the explored inputs, made with
\* the default RenderConfig
InitCall ==
    /\ data = <<>>
    /\ key = "identity"
    /\ outliers = <<>>
    /\ pcO = "idle"
    /\ InitConfig
    /\ call \in {[NoCall EXCEPT !.op = "pending", !.points = p, !.diagram_type = dt,
                                !.diagram_axis = da, !.path_to_save = path] :
                    p \in PointsInputs, dt \in DiagramInputs, da \in AxisInputs,
                    path \in PathInputs}
    /\ outcome = "ok"
    /\ trace = <<>>
    /\ subplots = <<>>
    /\ figsize = <<>>
    /\ saved = ""

NextVisualize ==
    /\ call.op = "pending"
    /\ visualize_distribution(call.points, call.diagram_type, call.diagram_axis,
                              call.path_to_save)

SpecVisualize == InitCall /\ [][NextVisualize]_vars

\* the validator called on its own
NextValidate ==
    /\ call.op = "pending"
    /\ validate_distribution(call.points, call.diagram_type, call.diagram_axis)

SpecValidate == InitCall /\ [][NextValidate]_vars

\* the outlier detector applied to each input
InitOutliers ==
    /\ data \in DataInputs
    /\ key \in Keys
    /\ outliers = <<>>
    /\ pcO = "ready"
    /\ InitConfig
    /\ InitRender

NextOutliers == get_boxplot_outliers

SpecOutliers == InitOutliers /\ [][NextOutliers]_vars

(***************************************************************************)
(* Properties of get_boxplot_outliers                                      *)
(***************************************************************************)
\* the value of rank r (0-based) among vals: the one with at most r values
\* below it and more than r values not above it
OrderStatistic(vals, r) ==
    CHOOSE v \in {vals[i] : i \in 1..Len(vals)} :
        /\ Cardinality({i \in 1..Len(vals) : vals[i] < v}) <= r
        /\ Cardinality({i \in 1..Len(vals) : vals[i] <= v}) > r

\* 4 * (the 25k-th percentile by linear interpolation between the closest
\* ranks): position h = (n-1)k/4, weights (1 - frac h) and (frac h) on the
\* values of ranks floor h and ceiling h
Quartile4(vals, k) ==
    LET h4 == (Len(vals) - 1) * k
        lo == h4 \div 4
        f4 == h4 % 4
        hi == IF f4 = 0 THEN lo ELSE lo + 1
    IN  (4 - f4) * OrderStatistic(vals, lo) + f4 * OrderStatistic(vals, hi)

\* v < Q1 - 1.5 (Q3 - Q1)  or  v > Q3 + 1.5 (Q3 - Q1), all multiplied by 8
OutsideFences(vals, v) ==
    LET q1 == Quartile4(vals, 1)
        q3 == Quartile4(vals, 3)
    IN  \/ 8 * v < 5 * q1 - 3 * q3
        \/ 8 * v > 5 * q3 - 3 * q1

Returned == {outliers[k] : k \in 1..Len(outliers)}

\* C1: with the identity key the returned indices are exactly the 0-based
\* positions whose value lies strictly outside the fences Q1 - 1.5 IQR and
\* Q3 + 1.5 IQR (quartiles by linear interpolation between closest ranks);
\* for [1,2,3,4,5,100] the result is [5].
C1_ExactlyTheValuesOutsideTheFences ==
    (pcO = "returned" /\ key = "identity") =>
        /\ Returned = {i \in 0..(Len(data) - 1) : OutsideFences(data, data[i + 1])}
        /\ (data = ExampleData => outliers = <<5>>)

\* a value exactly on the upper fence that was not returned
C1_Witness ==
    /\ pcO = "returned"
    /\ key = "identity"
    /\ data = <<0, 1, 1, 2>>
    /\ 8 * data[4] = 5 * Quartile4(data, 3) - 3 * Quartile4(data, 1)
    /\ outliers = <<>>

\* C2: every returned index lies in [0, len(data)), and the indices are in
\* strictly ascending order (hence without duplicates).
C2_IndicesInRangeAscending ==
    pcO = "returned" =>
        /\ \A k \in 1..Len(outliers) : outliers[k] \in 0..(Len(data) - 1)
        /\ \A k \in 1..(Len(outliers) - 1) : outliers[k] < outliers[k + 1]

\* two outliers returned, the second being the last element of the input
C2_Witness ==
    /\ pcO = "returned"
    /\ Len(outliers) >= 2
    /\ outliers[Len(outliers)] = Len(data) - 1

\* C3: when all keyed values are equal (a single element included) the
\* result is empty.
C3_EqualValuesNoOutliers ==
    (pcO = "returned"
     /\ \A i, j \in 1..Len(data) : ApplyKey(key, data[i]) = ApplyKey(key, data[j]))
        => outliers = <<>>

\* a single-element input was processed
C3_Witness ==
    /\ pcO = "returned"
    /\ Len(data) = 1
    /\ outliers = <<>>

(***************************************************************************)
(* Properties of validate_distribution                                     *)
(***************************************************************************)
\* a single DiagramTypes member, or a non-empty list of DiagramTypes members
SingleOrNonEmptyListOfDiagramTypes(x) ==
    \/ (~x.list /\ x.items[1].cls = "DiagramTypes")
    \/ (x.list /\ Len(x.items) > 0
               /\ \A k \in 1..Len(x.items) : x.items[k].cls = "DiagramTypes")

\* C4: the diagram-type argument is accepted only when it is a single
\* DiagramTypes member or a non-empty list of members; every other value,
\* the empty list and a plain string included, raises the diagram-type error.
C4_DiagramTypeAcceptedOnlyIfMemberOrNonEmptyList ==
    call.op = "validate_distribution" =>
        (outcome # "TypeError: diagram type"
            <=> SingleOrNonEmptyListOfDiagramTypes(call.diagram_type))

\* the two halves of points once the argument types were accepted and the
\* split succeeded
SplitDone ==
    /\ call.op = "validate_distribution"
    /\ outcome \notin {"TypeError: diagram type", "TypeError: diagram axis",
                       "TypeError: points", "ValueError: unpack"}

\* C5: after the split, the dimension error is raised whenever either half
\* is not one-dimensional, ShapeMismatchError whenever the sizes differ, and
\* the call returns only when both halves are one-dimensional and of equal
\* size.
C5_OneDimensionalEqualSizeOrError ==
    SplitDone =>
        LET a == Unpack(call.points).abscissa
            o == Unpack(call.points).ordinates
        IN  /\ (Product(a) # Product(o)) => outcome = "ShapeMismatchError"
            /\ (Product(a) = Product(o) /\ (Len(a) # 1 \/ Len(o) # 1))
                   => outcome = "ValueError: one-dimensional"
            /\ (outcome = "ok") <=> (Len(a) = 1 /\ Len(o) = 1 /\ Product(a) = Product(o))

(***************************************************************************)
(* Properties of the setters                                               *)
(***************************************************************************)
Setters == {"set_blockheight", "set_blockwidth", "set_plotcolor",
            "set_histbins", "set_range"}

\* C6: a setter call that raises leaves the six RenderConfig fields
\* unchanged (set_histbins(10.5) raises); one that succeeds stores its
\* argument in its own field and leaves the other five, darker_color
\* included, unchanged.
C6_SettersChangeOnlyTheirField ==
    [][call'.op \in Setters =>
        /\ (call'.op = "set_histbins" /\ call'.arg.type = "float") => outcome' # "ok"
        /\ outcome' # "ok" => UNCHANGED configVars
        /\ outcome' = "ok" =>
             /\ darker_color' = darker_color
             /\ IF call'.op = "set_blockheight" THEN block_height' = call'.arg.int
                ELSE block_height' = block_height
             /\ IF call'.op = "set_blockwidth" THEN block_width' = call'.arg.int
                ELSE block_width' = block_width
             /\ IF call'.op = "set_plotcolor" THEN plot_color' = call'.arg.str
                ELSE plot_color' = plot_color
             /\ IF call'.op = "set_histbins" THEN hist_bins' = call'.arg.int
                ELSE hist_bins' = hist_bins
             /\ IF call'.op = "set_range" THEN hist_range' = call'.arg.tup
                ELSE hist_range' = hist_range
    ]_vars

\* set_histbins(10.5) has raised after an earlier set_histbins(2) and a
\* set_plotcolor("red"): both earlier values are still in place
C6_Witness ==
    /\ call.op = "set_histbins"
    /\ call.arg.type = "float"
    /\ outcome # "ok"
    /\ hist_bins = 2
    /\ plot_color = "red"
    /\ darker_color = "green"

(***************************************************************************)
(* Properties of visualize_distribution                                    *)
(***************************************************************************)
ValidatorErrors ==
    {"TypeError: diagram type", "TypeError: diagram axis", "TypeError: points",
     "ValueError: unpack", "ShapeMismatchError", "ValueError: one-dimensional"}

Visualized == call.op = "visualize_distribution"
Validated == Visualized /\ outcome \notin ValidatorErrors

\* the requested lists: a single value counts as a list of one
Requested(x) == IF x.list THEN x.items ELSE <<x.items[1]>>

KindOf(v) == CASE v = "v" -> "violin" [] v = "h" -> "hist" [] v = "b" -> "boxplot"
               [] OTHER -> "none"

Occurrences(seq, x) == Cardinality({k \in 1..Len(seq) : seq[k] = x})

\* C7: for valid inputs with n diagram types and m axis names exactly n*m
\* subplots are created, one per cell (i, j) of the n x m grid; cell (i, j)
\* is drawn with the i-th diagram type and fed the abscissa if the j-th axis
\* is X, the ordinates if it is Y; only row 0 carries the axis name as title.
C7_OneSubplotPerGridCell ==
    Validated =>
        LET ds == Requested(call.diagram_type)
            as == Requested(call.diagram_axis)
        IN  /\ Len(subplots) = Len(ds) * Len(as)
            /\ \A i \in 0..(Len(ds) - 1), j \in 0..(Len(as) - 1) :
                 LET here == {k \in 1..Len(subplots) :
                                 subplots[k].row = i /\ subplots[k].col = j}
                 IN  /\ Cardinality(here) = 1
                     /\ \A k \in here :
                          /\ subplots[k].kind = KindOf(ds[i + 1].val)
                          /\ subplots[k].data =
                                IF as[j + 1].val = "X" THEN "abscissa" ELSE "ordinates"
                          /\ subplots[k].title = IF i = 0 THEN as[j + 1].val ELSE ""

\* a 2 x 2 grid of two different diagram types over the axes Y, X was drawn
C7_Witness ==
    /\ Visualized
    /\ outcome = "ok"
    /\ Len(subplots) = 4
    /\ call.diagram_type.items[1] # call.diagram_type.items[2]
    /\ call.diagram_axis.items = <<Member("AxisNames", "Y"), Member("AxisNames", "X")>>

\* C8: every boxplot cell has its median line in the plot_color in force
\* when the call was made.
C8_BoxplotMedianUsesPlotColor ==
    Visualized =>
        \A k \in 1..Len(subplots) :
            subplots[k].kind = "boxplot" => subplots[k].line = plot_color

\* C9: when the validator raises, its error is the outcome and nothing was
\* rendered, saved or shown; a successful call runs validate, figure, the
\* cells, tight layout, save (only with a non-empty path), show, in this
\* order.
C9_ValidationBeforeRendering ==
    Visualized =>
        /\ outcome \in ValidatorErrors =>
             /\ trace = <<"validate">>
             /\ subplots = <<>>
             /\ figsize = <<>>
             /\ saved = ""
        /\ outcome = "ok" =>
             LET n == Len(trace)
                 cells == Len(Requested(call.diagram_type)) * Len(Requested(call.diagram_axis))
                 withPath == call.path_to_save # ""
                 layoutAt == IF withPath THEN n - 2 ELSE n - 1
             IN  /\ trace[1] = "validate"
                 /\ trace[2] = "figure"
                 /\ trace[n] = "show"
                 /\ trace[layoutAt] = "tight_layout"
                 /\ withPath => trace[n - 1] = "savefig"
                 /\ Occurrences(trace, "savefig") = (IF withPath THEN 1 ELSE 0)
                 /\ saved = call.path_to_save
                 /\ \A x \in {"validate", "figure", "tight_layout", "show"} :
                        Occurrences(trace, x) = 1
                 /\ Occurrences(trace, "add_subplot") = cells
                 /\ Occurrences(trace, "draw") = cells
                 /\ \A k \in 1..n :
                        trace[k] \in {"add_subplot", "draw", "set_title"}
                            => (2 < k /\ k < layoutAt)

\* a call that drew two cells or more, saved the figure and showed it
C9_Witness ==
    /\ Visualized
    /\ outcome = "ok"
    /\ saved = "out.png"
    /\ Len(subplots) >= 2
    /\ trace[Len(trace)] = "show"

\* C10: once the validator has accepted the arguments no cell takes the
\* fallback branch, and the call goes on to tight layout and show.
C10_ValidatedCallReachesShow ==
    Validated =>
        /\ outcome # "ValueError: Invalid diagram type"
        /\ \A k \in 1..Len(subplots) : subplots[k].kind # "none"
        /\ Occurrences(trace, "tight_layout") = 1
        /\ trace[Len(trace)] = "show"

====
